---- MODULE Spec2Model ----
(***************************************************************************)
(* Model of lunohod_work_1.py: the event-log parser (parse_log_file), the  *)
(* per-session feature extraction loop (process_file) and the batch driver *)
(* (main).                                                                 *)
(*                                                                         *)
(* Times are counted in ticks of 1/TicksPerSecond seconds, so that every   *)
(* product time * sampling_rate is an exact rational and int() of it is    *)
(* computed exactly.  A float is [fin, v]: a finite number of ticks, or a  *)
(* non-finite value ("inf"/"nan" are accepted by float()).                 *)
(* Python's None is the empty tuple, a present value x is <<x>>.           *)
(***************************************************************************)
EXTENDS Integers, Sequences, FiniteSets, TLC

VARIABLES
    pc,             \* position of the function the specification runs
    log,            \* lines of the log file consumed so far (parse_log_file)
    intervals,      \* parse_log_file / process_file: local "intervals"
    current_start,  \* parse_log_file: None or <<float>>
    current_label,  \* parse_log_file: None or <<text>>
    out,            \* the messages printed so far (stdout)
    ret,            \* value returned by the function the specification runs
    session,        \* process_file: the session (file_path, log_path) at hand
    sr,             \* process_file: sampling rate returned by load_data
    total,          \* process_file: signals.shape[1]
    results,        \* process_file: local "results"
    idx,            \* process_file: number of intervals the loop has taken
    processed,      \* main: the sessions the glob loop has gone through
    all_results,    \* main: local "all_results"
    sink            \* main: None or <<table handed to DataFrame.to_excel>>

vars == <<pc, log, intervals, current_start, current_label, out, ret,
          session, sr, total, results, idx, processed, all_results, sink>>

parseVars == <<log, intervals, current_start, current_label>>
fileVars  == <<session, sr, total, results, idx>>
mainVars  == <<processed, all_results, sink>>

-----------------------------------------------------------------------------
(* Bounds of the model *)

MaxLines == 4          \* lines of a log read by the stepped parser
TicksPerSecond == 2    \* resolution of the timestamps
MaxTime == 2           \* timestamps -1..MaxTime ticks in process_file
MaxRate == 2           \* sampling rates 1..MaxRate samples per second
MaxTotal == 2          \* signals of 1..MaxTotal samples per channel
MaxPairs == 2          \* start/end pairs in a log given to process_file
MaxSessions == 3       \* files found by the glob of main

(* Marker codes of the log *)
StartMarker == 5
EndMarker == 6

-----------------------------------------------------------------------------
(* Python values *)

None == <<>>
Some(x) == <<x>>

Num(n) == [fin |-> TRUE, v |-> n]
Inf == [fin |-> FALSE, v |-> 1]

(* A token is modelled by what float() and int() make of it. *)
FloatTok(x) == [ok |-> TRUE, val |-> x]
BadFloatTok == [ok |-> FALSE, val |-> Num(0)]
IntTok(m) == [ok |-> TRUE, val |-> m]
BadIntTok == [ok |-> FALSE, val |-> 0]

(* A stripped line: its number of tokens, token 0, token 2, tokens 3.. *)
DataLine(t0, t2, rest) ==
    [ntok |-> 3 + Len(rest), time |-> t0, marker |-> t2, rest |-> rest]
BlankLine == [ntok |-> 0, time |-> BadFloatTok, marker |-> BadIntTok, rest |-> <<>>]
ShortLine == [ntok |-> 2, time |-> FloatTok(Num(0)), marker |-> BadIntTok, rest |-> <<>>]

(* Reading the file raised (codecs.open failed, or a decode error). *)
ReadFailure == [ntok |-> -1, time |-> BadFloatTok, marker |-> BadIntTok, rest |-> <<>>]

RECURSIVE Join(_)
Join(words) ==
    IF Len(words) = 1 THEN Head(words)
    ELSE Head(words) \o " " \o Join(Tail(words))

Label(line) == IF line.ntok > 3 THEN Some(Join(line.rest)) ELSE None

-----------------------------------------------------------------------------
(* parse_log_file *)

ParserInit == [intervals |-> <<>>, current_start |-> None,
               current_label |-> None, out |-> <<>>]

ProcessLine_LabelOfEnd(st, line) ==
    IF line.ntok = 0 \/ line.ntok < 3 THEN st
    ELSE IF ~line.time.ok \/ ~line.marker.ok
    THEN [st EXCEPT !.out = Append(@, "line_error")]
    ELSE IF line.marker.val = StartMarker
    THEN [intervals |-> st.intervals,
          current_start |-> Some(line.time.val),
          current_label |-> Label(line),
          out |-> IF st.current_start # None
                  THEN Append(st.out, "unclosed") ELSE st.out]
    ELSE IF line.marker.val = EndMarker /\ st.current_start # None
    THEN [intervals |-> Append(st.intervals,
                               [label |-> Label(line),
                                start |-> st.current_start[1],
                                end |-> line.time.val]),
          current_start |-> None,
          current_label |-> None,
          out |-> st.out]
    ELSE st

ProcessLine_KeepFirstStart(st, line) ==
    IF line.ntok = 0 \/ line.ntok < 3 THEN st
    ELSE IF ~line.time.ok \/ ~line.marker.ok
    THEN [st EXCEPT !.out = Append(@, "line_error")]
    ELSE IF line.marker.val = StartMarker
    THEN IF st.current_start # None
         THEN [st EXCEPT !.out = Append(@, "unclosed")]
         ELSE [intervals |-> st.intervals,
               current_start |-> Some(line.time.val),
               current_label |-> Label(line),
               out |-> st.out]
    ELSE IF line.marker.val = EndMarker /\ st.current_start # None
    THEN [intervals |-> Append(st.intervals,
                               [label |-> st.current_label,
                                start |-> st.current_start[1],
                                end |-> line.time.val]),
          current_start |-> None,
          current_label |-> None,
          out |-> st.out]
    ELSE st

ProcessLine_ErrorResets(st, line) ==
    IF line.ntok = 0 \/ line.ntok < 3 THEN st
    ELSE IF ~line.time.ok \/ ~line.marker.ok
    THEN [intervals |-> st.intervals, current_start |-> None,
          current_label |-> None, out |-> Append(st.out, "line_error")]
    ELSE IF line.marker.val = StartMarker
    THEN [intervals |-> st.intervals,
          current_start |-> Some(line.time.val),
          current_label |-> Label(line),
          out |-> IF st.current_start # None
                  THEN Append(st.out, "unclosed") ELSE st.out]
    ELSE IF line.marker.val = EndMarker /\ st.current_start # None
    THEN [intervals |-> Append(st.intervals,
                               [label |-> st.current_label,
                                start |-> st.current_start[1],
                                end |-> line.time.val]),
          current_start |-> None,
          current_label |-> None,
          out |-> st.out]
    ELSE st

ProcessLine_EndWhileIdle(st, line) ==
    IF line.ntok = 0 \/ line.ntok < 3 THEN st
    ELSE IF ~line.time.ok \/ ~line.marker.ok
    THEN [st EXCEPT !.out = Append(@, "line_error")]
    ELSE IF line.marker.val = StartMarker
    THEN [intervals |-> st.intervals,
          current_start |-> Some(line.time.val),
          current_label |-> Label(line),
          out |-> IF st.current_start # None
                  THEN Append(st.out, "unclosed") ELSE st.out]
    ELSE IF line.marker.val = EndMarker
    THEN [intervals |-> Append(st.intervals,
                               [label |-> st.current_label,
                                start |-> IF st.current_start # None
                                          THEN st.current_start[1]
                                          ELSE line.time.val,
                                end |-> line.time.val]),
          current_start |-> None,
          current_label |-> None,
          out |-> st.out]
    ELSE st

(* One iteration of "for line in f" (lines 37-75): the parser state after  *)
(* the line.                                                               *)
ProcessLine(st, line) ==
    IF line.ntok = 0 \/ line.ntok < 3 THEN st                  \* 40-46
    ELSE IF ~line.time.ok \/ ~line.marker.ok                   \* 50-51
    THEN [st EXCEPT !.out = Append(@, "line_error")]           \* 73-75
    ELSE IF line.marker.val = StartMarker                      \* 56
    THEN [intervals |-> st.intervals,
          current_start |-> Some(line.time.val),
          current_label |-> Label(line),
          out |-> IF st.current_start # None
                  THEN Append(st.out, "unclosed") ELSE st.out]
    ELSE IF line.marker.val = EndMarker /\ st.current_start # None   \* 63
    THEN [intervals |-> Append(st.intervals,
                               [label |-> st.current_label,
                                start |-> st.current_start[1],
                                end |-> line.time.val]),
          current_start |-> None,
          current_label |-> None,
          out |-> st.out]
    ELSE st

ReturnIntervals_FlushOpen(st) ==
    IF st.current_start # None
    THEN Append(st.intervals, [label |-> st.current_label,
                               start |-> st.current_start[1],
                               end |-> st.current_start[1]])
    ELSE st.intervals

(* "return intervals" (line 80). *)
ReturnIntervals(st) == st.intervals

(* The except clause of lines 77-78. *)
ReadError(st) == [st EXCEPT !.out = Append(@, "read_error")]

(* parse_log_file on a whole file: the lines in order, up to the end of    *)
(* the file or to the point where reading raises.                          *)
RECURSIVE ParseFrom(_, _)
ParseFrom(st, lines) ==
    IF lines = <<>> THEN st
    ELSE IF Head(lines) = ReadFailure THEN ReadError(st)
    ELSE ParseFrom(ProcessLine(st, Head(lines)), Tail(lines))

parse_log_file(lines) ==
    LET st == ParseFrom(ParserInit, lines)
    IN  [intervals |-> ReturnIntervals(st), out |-> st.out]

ParserState == [intervals |-> intervals, current_start |-> current_start,
                current_label |-> current_label, out |-> out]

-----------------------------------------------------------------------------
(* SpecParse: parse_log_file reading a log line by line *)

ParseLines ==
    {DataLine(FloatTok(Num(t)), IntTok(m), r) :
        t \in 0..1, m \in {StartMarker, EndMarker},
        r \in {<<>>, <<"A", "B">>}}
    \cup {DataLine(FloatTok(Num(0)), IntTok(7), <<"A">>),
          DataLine(BadFloatTok, IntTok(StartMarker), <<"A">>),
          DataLine(FloatTok(Num(0)), BadIntTok, <<"A">>),
          BlankLine, ShortLine}

InitParse ==
    /\ pc = "reading"
    /\ log = <<>>
    /\ intervals = ParserInit.intervals
    /\ current_start = ParserInit.current_start
    /\ current_label = ParserInit.current_label
    /\ out = ParserInit.out
    /\ ret = None
    /\ session = None /\ sr = 0 /\ total = 0 /\ results = <<>> /\ idx = 0
    /\ processed = <<>> /\ all_results = <<>> /\ sink = None

ReadLine(line) ==
    /\ pc = "reading"
    /\ Len(log) < MaxLines
    /\ LET st == ProcessLine(ParserState, line)
       IN  /\ intervals' = st.intervals
           /\ current_start' = st.current_start
           /\ current_label' = st.current_label
           /\ out' = st.out
    /\ log' = Append(log, line)
    /\ UNCHANGED <<pc, ret, fileVars, mainVars>>

ReadFails ==
    /\ pc = "reading"
    /\ out' = ReadError(ParserState).out
    /\ ret' = Some(ReturnIntervals(ParserState))
    /\ log' = Append(log, ReadFailure)
    /\ pc' = "returned"
    /\ UNCHANGED <<intervals, current_start, current_label, fileVars, mainVars>>

EndOfFile ==
    /\ pc = "reading"
    /\ ret' = Some(ReturnIntervals(ParserState))
    /\ pc' = "returned"
    /\ UNCHANGED <<parseVars, out, fileVars, mainVars>>

NextParse ==
    \/ \E line \in ParseLines : ReadLine(line)
    \/ ReadFails
    \/ EndOfFile

SpecParse == InitParse /\ [][NextParse]_vars

-----------------------------------------------------------------------------
(* process_file *)

PyNone == [none |-> TRUE, val |-> <<>>]
PyList(l) == [none |-> FALSE, val |-> l]

(* int(x) of the rational n / d: truncation toward zero. *)
Trunc(n, d) == IF n >= 0 THEN n \div d ELSE -((-n) \div d)

(* int(t * sr) (lines 101-102): raises on a non-finite product. *)
ToIndex(t, rate) ==
    [exc |-> ~t.fin,
     val |-> IF t.fin THEN Trunc(t.v * rate, TicksPerSecond) ELSE 0]

MapInterval_AllowEmpty(interval, rate, tot) ==
    LET s == ToIndex(interval.start, rate)
        e == ToIndex(interval.end, rate)
    IN  [exc |-> s.exc \/ e.exc,
         start_idx |-> s.val,
         end_idx |-> e.val,
         rejected |-> s.val < 0 \/ e.val > tot \/ s.val > e.val]

(* Lines 101-105: the sample range of an interval and the range check.     *)
MapInterval(interval, rate, tot) ==
    LET s == ToIndex(interval.start, rate)
        e == ToIndex(interval.end, rate)
    IN  [exc |-> s.exc \/ e.exc,
         start_idx |-> s.val,
         end_idx |-> e.val,
         rejected |-> s.val < 0 \/ e.val > tot \/ s.val >= e.val]

(* interval["end"] - interval["start"] *)
Minus(a, b) == IF a.fin /\ b.fin THEN Num(a.v - b.v) ELSE Inf

(* Lines 110-132: the record of an accepted interval.  Slice is the index  *)
(* range interval_signals is cut with; the channel features are computed   *)
(* from that slice and are not modelled.                                   *)
Record(name, interval, m) ==
    [File |-> name,
     Label |-> interval.label,
     Start_Time |-> interval.start,
     End_Time |-> interval.end,
     Duration |-> Minus(interval.end, interval.start),
     Slice |-> <<m.start_idx, m.end_idx>>]

(* One iteration of "for interval in intervals" (lines 100-134), with the  *)
(* except clause of lines 138-139 when int() raises.                       *)
ProcessInterval(acc, interval, rate, tot, name) ==
    LET m == MapInterval(interval, rate, tot)
    IN  IF m.exc
        THEN [exc |-> TRUE, results |-> acc.results,
              out |-> Append(acc.out, "session_error")]
        ELSE IF m.rejected
        THEN [exc |-> FALSE, results |-> acc.results,
              out |-> Append(acc.out, "bad_interval")]
        ELSE [exc |-> FALSE,
              results |-> Append(acc.results, Record(name, interval, m)),
              out |-> acc.out]

RECURSIVE LoopFrom(_, _, _, _, _)
LoopFrom(acc, ivs, rate, tot, name) ==
    IF ivs = <<>> \/ acc.exc THEN acc
    ELSE LoopFrom(ProcessInterval(acc, Head(ivs), rate, tot, name),
                  Tail(ivs), rate, tot, name)

FileReturn_PartialOnError(acc) == PyList(acc.results)

(* "return results" (line 136), or "return None" of the except clause      *)
(* (line 143).                                                             *)
FileReturn(acc) == IF acc.exc THEN PyNone ELSE PyList(acc.results)

(* Lines 87-88: load_data raises when the data source cannot be loaded.    *)
LoadFails(s) == s.data = None

(* process_file on a session: the value returned and the messages printed. *)
process_file(s) ==
    IF LoadFails(s)
    THEN [ret |-> PyNone, out |-> <<"session_error">>]
    ELSE LET p == parse_log_file(s.log)
         IN  IF p.intervals = <<>>
             THEN [ret |-> PyNone, out |-> Append(p.out, "no_intervals")]
             ELSE LET acc == LoopFrom([exc |-> FALSE, results |-> <<>>,
                                       out |-> p.out],
                                      p.intervals, s.data[1].sr,
                                      s.data[1].total, s.name)
                  IN  [ret |-> FileReturn(acc), out |-> acc.out]

-----------------------------------------------------------------------------
(* SpecFile: process_file on one session, interval by interval *)

FileTimes == {Num(t) : t \in (-1)..MaxTime} \cup {Inf}

Pair(s, e) == <<DataLine(FloatTok(s), IntTok(StartMarker), <<"A">>),
                DataLine(FloatTok(e), IntTok(EndMarker), <<>>)>>

RECURSIVE PairLogs(_)
PairLogs(n) ==
    IF n = 0 THEN {<<>>}
    ELSE LET shorter == PairLogs(n - 1)
         IN  shorter \cup {l \o Pair(s, e) :
                             l \in {x \in shorter : Len(x) = 2 * (n - 1)},
                             s \in FileTimes, e \in FileTimes}

FileLogs == PairLogs(MaxPairs) \cup {<<ReadFailure>>}

DataSources ==
    {None} \cup {Some([sr |-> r, total |-> n]) : r \in 1..MaxRate, n \in 1..MaxTotal}

FileSessions ==
    {[name |-> 1, has_log |-> TRUE, data |-> d, log |-> l] :
        d \in DataSources, l \in FileLogs}

InitFile ==
    /\ pc = "load"
    /\ session \in {Some(s) : s \in FileSessions}
    /\ log = <<>> /\ intervals = <<>>
    /\ current_start = None /\ current_label = None
    /\ out = <<>> /\ ret = None
    /\ sr = 0 /\ total = 0 /\ results = <<>> /\ idx = 0
    /\ processed = <<>> /\ all_results = <<>> /\ sink = None

(* Lines 87-88. *)
LoadData ==
    /\ pc = "load"
    /\ IF LoadFails(session[1])
       THEN /\ out' = Append(out, "session_error")
            /\ ret' = Some(PyNone)
            /\ pc' = "done"
            /\ UNCHANGED <<sr, total>>
       ELSE /\ sr' = session[1].data[1].sr
            /\ total' = session[1].data[1].total
            /\ pc' = "parse"
            /\ UNCHANGED <<out, ret>>
    /\ UNCHANGED <<parseVars, session, results, idx, mainVars>>

(* Lines 91-98. *)
ParseLog ==
    /\ pc = "parse"
    /\ LET p == parse_log_file(session[1].log)
       IN  IF p.intervals = <<>>
           THEN /\ out' = Append(out \o p.out, "no_intervals")
                /\ ret' = Some(PyNone)
                /\ pc' = "done"
                /\ UNCHANGED <<intervals, results>>
           ELSE /\ out' = out \o p.out
                /\ intervals' = p.intervals
                /\ results' = <<>>
                /\ pc' = "loop"
                /\ UNCHANGED ret
    /\ UNCHANGED <<log, current_start, current_label, session, sr, total,
                   idx, mainVars>>

(* Lines 100-134, and 138-143 when the iteration raises. *)
LoopStep ==
    /\ pc = "loop"
    /\ idx < Len(intervals)
    /\ LET acc == ProcessInterval([exc |-> FALSE, results |-> results,
                                   out |-> out],
                                  intervals[idx + 1], sr, total,
                                  session[1].name)
       IN  /\ out' = acc.out
           /\ IF acc.exc
              THEN /\ ret' = Some(FileReturn(acc))
                   /\ pc' = "done"
                   /\ UNCHANGED <<results, idx>>
              ELSE /\ results' = acc.results
                   /\ idx' = idx + 1
                   /\ UNCHANGED <<pc, ret>>
    /\ UNCHANGED <<parseVars, session, sr, total, mainVars>>

(* Line 136. *)
ReturnResults ==
    /\ pc = "loop"
    /\ idx = Len(intervals)
    /\ ret' = Some(FileReturn([exc |-> FALSE, results |-> results, out |-> out]))
    /\ pc' = "done"
    /\ UNCHANGED <<parseVars, out, fileVars, mainVars>>

NextFile == LoadData \/ ParseLog \/ LoopStep \/ ReturnResults

SpecFile == InitFile /\ [][NextFile]_vars

-----------------------------------------------------------------------------
(* main *)

Truthy(r) == ~r.none /\ r.val # <<>>

(* The body of "for file_path in data_dir.glob(...)" (lines 154-169):      *)
(* all_results and the output after the session s.                         *)
MainBody(acc, s) ==
    IF ~s.has_log
    THEN [all_results |-> acc.all_results,
          out |-> Append(acc.out, "log_missing")]
    ELSE LET r == process_file(s)
         IN  IF Truthy(r.ret)
             THEN [all_results |-> acc.all_results \o r.ret.val,
                   out |-> Append(Append(acc.out, "processing") \o r.out, "found")]
             ELSE [all_results |-> acc.all_results,
                   out |-> Append(acc.out, "processing") \o r.out]

RECURSIVE MainFrom(_, _)
MainFrom(acc, ss) ==
    IF ss = <<>> THEN acc ELSE MainFrom(MainBody(acc, Head(ss)), Tail(ss))

(* df[meta_cols + channel_metrics] (lines 173-182), without the channel    *)
(* feature columns.                                                        *)
Table(records) ==
    [i \in 1..Len(records) |->
        [File |-> records[i].File, Label |-> records[i].Label,
         Start_Time |-> records[i].Start_Time,
         End_Time |-> records[i].End_Time,
         Duration |-> records[i].Duration]]

SaveResults_AlwaysWrite(records, printed) ==
    [sink |-> Some(Table(records)), out |-> Append(printed, "saved")]

(* Lines 172-200: the table is written only when all_results is not empty. *)
SaveResults(records, printed) ==
    IF records # <<>>
    THEN [sink |-> Some(Table(records)), out |-> Append(printed, "saved")]
    ELSE [sink |-> None, out |-> Append(printed, "no_data")]

-----------------------------------------------------------------------------
(* Spec: main over the sessions found by the glob *)

BatchLogs ==
    {<<>>,
     Pair(Num(0), Num(2)),
     Pair(Num(2), Num(2)),
     Pair(Num(0), Num(2)) \o Pair(Num(2), Num(0)),
     Pair(Num(0), Num(2)) \o Pair(Num(0), Inf)}

(* The k-th file of the glob: without a log file, or with one and a data   *)
(* source that loads or not.                                               *)
BatchSessions(k) ==
    {[name |-> k, has_log |-> FALSE, data |-> None, log |-> <<>>]}
    \cup {[name |-> k, has_log |-> TRUE, data |-> d, log |-> l] :
            d \in {None, Some([sr |-> MaxRate, total |-> MaxTotal])},
            l \in BatchLogs}

Init ==
    /\ pc = "glob"
    /\ processed = <<>> /\ all_results = <<>> /\ sink = None
    /\ out = <<>> /\ ret = None
    /\ log = <<>> /\ intervals = <<>>
    /\ current_start = None /\ current_label = None
    /\ session = None /\ sr = 0 /\ total = 0 /\ results = <<>> /\ idx = 0

NextFileOfGlob(s) ==
    /\ pc = "glob"
    /\ Len(processed) < MaxSessions
    /\ LET acc == MainBody([all_results |-> all_results, out |-> out], s)
       IN  /\ all_results' = acc.all_results
           /\ out' = acc.out
    /\ processed' = Append(processed, s)
    /\ UNCHANGED <<pc, ret, sink, parseVars, fileVars>>

Save ==
    /\ pc = "glob"
    /\ LET r == SaveResults(all_results, out)
       IN  /\ sink' = r.sink
           /\ out' = r.out
    /\ pc' = "done"
    /\ UNCHANGED <<ret, processed, all_results, parseVars, fileVars>>

Next ==
    \/ \E s \in BatchSessions(Len(processed) + 1) : NextFileOfGlob(s)
    \/ Save

Spec == Init /\ [][Next]_vars

-----------------------------------------------------------------------------
(* Properties of parse_log_file (checked under SpecParse) *)

Parsed(l) == l.ntok >= 3 /\ l.time.ok /\ l.marker.ok
IsStart(l) == Parsed(l) /\ l.marker.val = StartMarker
IsEnd(l) == Parsed(l) /\ l.marker.val = EndMarker
IsOther(l) == Parsed(l) /\ l.marker.val \notin {StartMarker, EndMarker}
Malformed(l) == l.ntok >= 3 /\ (~l.time.ok \/ ~l.marker.ok)
WellFormed(l) == ~Malformed(l)

(* The line a ReadLine step has just consumed. *)
LastRead == log'[Len(log')]
ReadStep == pc = "reading" /\ pc' = "reading" /\ Len(log') = Len(log) + 1

(* Position of the last start or end line of l, 0 if there is none. *)
LastMark(l) ==
    LET S == {i \in 1..Len(l) : IsStart(l[i]) \/ IsEnd(l[i])}
    IN  IF S = {} THEN 0 ELSE CHOOSE i \in S : \A j \in S : j <= i

(* The log is N start lines, each followed by its end line. *)
Paired(l) ==
    /\ Len(l) % 2 = 0
    /\ \A i \in 1..Len(l) : IF i % 2 = 1 THEN IsStart(l[i]) ELSE IsEnd(l[i])

(* C1: a log of N properly paired start/end lines yields exactly N         *)
(* intervals in the order of the pairs; the i-th interval has the time and *)
(* label of the i-th start line and the time of the i-th end line, whose   *)
(* own label is not used.                                                  *)
C1_PairedLogYieldsItsPairs ==
    (pc = "returned" /\ Paired(log)) =>
        ret = Some([i \in 1..(Len(log) \div 2) |->
                      [label |-> Label(log[2 * i - 1]),
                       start |-> log[2 * i - 1].time.val,
                       end |-> log[2 * i].time.val]])

C1_Witness ==
    /\ pc = "returned" /\ Paired(log) /\ Len(log) = 4
    /\ Label(log[1]) # Label(log[2])
    /\ Label(log[1]) # Label(log[3])
    /\ log[1].time.val # log[3].time.val
    /\ Len(ret[1]) = 2

(* C2: a start line read while an interval is open prints a warning and    *)
(* emits nothing; the end line that follows two consecutive start lines    *)
(* emits exactly one interval, the one of the later start line.            *)
C2_SecondStartSupersedesFirst ==
    [][/\ (ReadStep /\ IsStart(LastRead) /\ current_start # None) =>
            /\ intervals' = intervals
            /\ out' = Append(out, "unclosed")
            /\ current_start' = Some(LastRead.time.val)
            /\ current_label' = Label(LastRead)
       /\ LET j == LastMark(log)
              i == IF j = 0 THEN 0 ELSE LastMark(SubSeq(log, 1, j - 1))
          IN  (ReadStep /\ IsEnd(LastRead) /\ i > 0
                 /\ IsStart(log[i]) /\ IsStart(log[j])) =>
                  /\ intervals' = Append(intervals,
                                         [label |-> Label(log[j]),
                                          start |-> log[j].time.val,
                                          end |-> LastRead.time.val])
                  /\ current_start' = None
      ]_vars

C2_Witness ==
    /\ Len(log) = 3
    /\ IsStart(log[1]) /\ IsStart(log[2]) /\ IsEnd(log[3])
    /\ log[1].time.val # log[2].time.val
    /\ Label(log[1]) # Label(log[2])
    /\ Len(intervals) = 1
    /\ out = <<"unclosed">>

(* C6: a line whose timestamp or marker does not parse is skipped with a   *)
(* warning: the parser state and the intervals returned are those of the   *)
(* same log without the malformed lines.                                   *)
C6_MalformedLineIsSkipped ==
    LET clean == SelectSeq(log, WellFormed)
        st == ParseFrom(ParserInit, clean)
    IN  /\ intervals = st.intervals
        /\ current_start = st.current_start
        /\ current_label = st.current_label
        /\ Len(SelectSeq(out, LAMBDA m : m = "line_error"))
             = Len(SelectSeq(log, Malformed))
        /\ pc = "returned" => ret = Some(parse_log_file(clean).intervals)

C6_Witness ==
    /\ pc = "returned" /\ Len(log) = 4
    /\ IsStart(log[1]) /\ Malformed(log[2]) /\ Malformed(log[3]) /\ IsEnd(log[4])
    /\ ~log[2].time.ok /\ log[3].time.ok
    /\ Len(ret[1]) = 1

(* C7: an interval still open when the log ends is not returned; the       *)
(* intervals closed before its start line are returned as they are.        *)
C7_OpenIntervalAtEndIsDropped ==
    LET j == LastMark(log)
    IN  (pc = "returned" /\ j > 0 /\ IsStart(log[j])) =>
            ret = Some(parse_log_file(SubSeq(log, 1, j - 1)).intervals)

C7_Witness ==
    /\ pc = "returned" /\ Len(log) = 3
    /\ IsStart(log[1]) /\ IsEnd(log[2]) /\ IsStart(log[3])
    /\ Len(ret[1]) = 1
    /\ current_start # None

(* C9: an end line read while no interval is open, and a line with a       *)
(* marker other than 5 and 6, leave the intervals, the pending start and   *)
(* label and the output as they are, and reading goes on.                  *)
C9_IgnoredMarkersChangeNothing ==
    [][(/\ pc = "reading" /\ Len(log') = Len(log) + 1
        /\ \/ IsEnd(LastRead) /\ current_start = None
           \/ IsOther(LastRead)) =>
            /\ UNCHANGED <<intervals, current_start, current_label, out>>
            /\ pc' = "reading"
      ]_vars

C9_Witness ==
    /\ pc = "returned" /\ Len(log) = 4
    /\ IsEnd(log[1]) /\ IsStart(log[2]) /\ IsOther(log[3]) /\ IsEnd(log[4])
    /\ Len(ret[1]) = 1
    /\ out = <<>>

-----------------------------------------------------------------------------
(* Properties of process_file (checked under SpecFile) *)

Floor(n, d) == n \div d

Finite(interval) == interval.start.fin /\ interval.end.fin

(* C3: an interval is rejected iff start_index < 0 or end_index > total or *)
(* start_index >= end_index, the indices being floor(time * rate), also    *)
(* for negative times; an accepted interval is cut at exactly those        *)
(* indices.                                                                *)
C3_RangeCheckOnFloorIndices ==
    [][(pc = "loop" /\ idx < Len(intervals) /\ Finite(intervals[idx + 1])) =>
        LET iv == intervals[idx + 1]
            fs == Floor(iv.start.v * sr, TicksPerSecond)
            fe == Floor(iv.end.v * sr, TicksPerSecond)
        IN  IF fs < 0 \/ fe > total \/ fs >= fe
            THEN results' = results
            ELSE /\ Len(results') = Len(results) + 1
                 /\ results'[Len(results')].Slice = <<fs, fe>>
      ]_vars

Passes(interval, rate, tot) ==
    LET m == MapInterval(interval, rate, tot) IN ~m.exc /\ ~m.rejected

RECURSIVE RecordsOf(_, _, _, _)
RecordsOf(ivs, rate, tot, name) ==
    IF ivs = <<>> THEN <<>>
    ELSE (IF Passes(Head(ivs), rate, tot)
          THEN <<Record(name, Head(ivs), MapInterval(Head(ivs), rate, tot))>>
          ELSE <<>>) \o RecordsOf(Tail(ivs), rate, tot, name)

Returned == IF ret[1].none THEN <<>> ELSE ret[1].val

(* C4: when the data loads, process_file yields one record for every       *)
(* parsed interval that passes the range check and none for the others, in *)
(* parse order; a log without intervals yields no record and a diagnostic. *)
C4_OneRecordPerValidInterval ==
    (pc = "done" /\ session # None /\ ~LoadFails(session[1])) =>
        LET ivs == parse_log_file(session[1].log).intervals
        IN  /\ Returned = RecordsOf(ivs, sr, total, session[1].name)
            /\ ivs = <<>> => ret[1] = PyNone /\ out[Len(out)] = "no_intervals"

(* C10: every record comes from a sample range with                        *)
(* 0 <= start_idx < end_idx <= total, and so from an interval that ends    *)
(* after it starts, with a positive duration.                              *)
C10_RecordsHavePositiveDuration ==
    \A r \in {results[i] : i \in 1..Len(results)}
            \cup (IF ret = None THEN {} ELSE {Returned[i] : i \in 1..Len(Returned)}) :
        /\ 0 <= r.Slice[1] /\ r.Slice[1] < r.Slice[2] /\ r.Slice[2] <= total
        /\ r.Start_Time.fin /\ r.End_Time.fin /\ r.Duration.fin
        /\ r.End_Time.v > r.Start_Time.v
        /\ r.Duration.v = r.End_Time.v - r.Start_Time.v
        /\ r.Duration.v > 0

C10_Witness ==
    /\ pc = "done" /\ sr > 0
    /\ Len(intervals) = 2
    /\ Finite(intervals[1])
    /\ intervals[1].end.v < intervals[1].start.v
    /\ ~ret[1].none /\ Len(ret[1].val) = 1
    /\ ret[1].val[1].Start_Time = intervals[2].start

-----------------------------------------------------------------------------
(* Properties of main (checked under Spec) *)

Raises(s) ==
    \E i \in 1..Len(parse_log_file(s.log).intervals) :
        ~Finite(parse_log_file(s.log).intervals[i])

Fails(s) == ~s.has_log \/ LoadFails(s) \/ Raises(s)
Succeeds(s) == ~Fails(s)

Count(seq, m) == Len(SelectSeq(seq, LAMBDA x : x = m))

BatchStart == [all_results |-> <<>>, out |-> <<>>]

(* C5: a session that fails (no log file, data that does not load, an      *)
(* exception while it is processed) contributes no record and prints a     *)
(* diagnostic; the records of the batch are those of the same batch        *)
(* without the failing sessions.                                           *)
C5_FailingSessionIsIsolated ==
    /\ all_results = MainFrom(BatchStart, SelectSeq(processed, Succeeds)).all_results
    /\ \A k \in 1..Len(processed) :
         Fails(processed[k]) =>
            \A i \in 1..Len(all_results) : all_results[i].File # processed[k].name
    /\ Count(out, "log_missing")
         = Len(SelectSeq(processed, LAMBDA s : ~s.has_log))
    /\ Count(out, "session_error")
         = Len(SelectSeq(processed,
                         LAMBDA s : s.has_log /\ (LoadFails(s) \/ Raises(s))))

C5_Witness ==
    /\ Len(processed) = 3
    /\ Succeeds(processed[1]) /\ Succeeds(processed[3])
    /\ processed[2].has_log /\ ~LoadFails(processed[2]) /\ Raises(processed[2])
    /\ Passes(parse_log_file(processed[2].log).intervals[1],
              processed[2].data[1].sr, processed[2].data[1].total)
    /\ Len(all_results) = 2
    /\ all_results[1].File = 1 /\ all_results[2].File = 3

(* C8: the table is written only when at least one record was accumulated; *)
(* when no session produced a record nothing is written and a diagnostic   *)
(* is printed instead.                                                     *)
C8_EmptyBatchWritesNothing ==
    /\ sink # None =>
          /\ pc = "done" /\ all_results # <<>>
          /\ Len(sink[1]) = Len(all_results)
    /\ (pc = "done" /\ \A k \in 1..Len(processed) :
                          MainBody(BatchStart, processed[k]).all_results = <<>>) =>
          /\ sink = None
          /\ out[Len(out)] = "no_data"
    /\ (pc = "done" /\ all_results # <<>>) => sink # None

C8_Witness ==
    /\ pc = "done" /\ sink = None
    /\ Len(processed) = 2
    /\ processed[1].has_log /\ ~LoadFails(processed[1])
    /\ process_file(processed[1]).ret = PyList(<<>>)
    /\ out[Len(out)] = "no_data"

====
